---- MODULE Spec2Model ----
(***************************************************************************)
(* The telemetry ingestor of rust_iot_mqtt as a state machine: the broker  *)
(* consumer (mqtt.rs), the bounded handoff channel (tokio mpsc), the       *)
(* micro-batching writer (batching.rs), the storage adapter (db.rs), the   *)
(* metrics (metrics.rs) and the supervising main task (main.rs).           *)
(* Every action is one piece of a task between two suspension points.      *)
(***************************************************************************)
EXTENDS Integers, Sequences, FiniteSets, TLC

\* ------------------------------------------------------------------ bounds
\* Publishes the broker delivers in one run.
MaxMsgs == 2
\* Largest configured BATCH_SIZE explored (0 parses as a usize too).
MaxBatchCfg == 2
\* Largest configured CHANNEL_CAPACITY explored (tokio rejects 0).
MaxCapacityCfg == 2
\* Failed executions of the bulk insert the database produces in one run.
MaxDbErrors == 3

\* ------------------------------------------------------- program constants
\* mqtt.rs
MAX_RETRIES == 3
INITIAL_BACKOFF_MS == 100
MAX_BACKOFF_MS == 2000
\* One attempt more than flush_batch makes.
FLUSH_MAX_RETRIES_Four == 2 + 2

\* batching.rs, the writer's own retry budget
FLUSH_MAX_RETRIES == 3
\* One execution more than insert_batch makes.
max_attempts_Six == 3 + 3

\* db.rs, the adapter's inner retry budget
max_attempts == 5

\* ------------------------------------------------------------ telemetry
\* An f64 is a finite value in ten-thousandths, or NaN or an infinity.
Scale == 10000
Fin(n) == [k |-> "fin", v |-> n]
F(units) == Fin(units * Scale)
NaN == [k |-> "nan", v |-> 0]
PosInf == [k |-> "pinf", v |-> 0]
NegInf == [k |-> "ninf", v |-> 0]

\* IEEE 754 `<` on f64: false as soon as one side is NaN.
FLt(a, b) ==
    IF a.k = "nan" \/ b.k = "nan" THEN FALSE
    ELSE IF a.k = "ninf" THEN b.k # "ninf"
    ELSE IF a.k = "pinf" THEN FALSE
    ELSE IF b.k = "pinf" THEN TRUE
    ELSE IF b.k = "ninf" THEN FALSE
    ELSE a.v < b.v

\* IEEE 754 `>` on f64.
FGt(a, b) == FLt(b, a)

TEMP_MIN == F(-50)
TEMP_MAX == F(100)
HUMIDITY_MIN == F(0)
HUMIDITY_MAX == F(100)
BATTERY_MIN == F(0)
BATTERY_MAX == F(100)

Telemetry(d, ts, temp, hum, bat) ==
    [device_id |-> d, timestamp |-> ts, temperature |-> temp,
     humidity |-> hum, battery |-> bat]

\* validate with the bounds excluded: <= and >= for < and >.
validate_Exclusive(t) ==
    IF ~FGt(t.temperature, TEMP_MIN) \/ ~FLt(t.temperature, TEMP_MAX) THEN "Validation"
    ELSE IF ~FGt(t.humidity, HUMIDITY_MIN) \/ ~FLt(t.humidity, HUMIDITY_MAX) THEN "Validation"
    ELSE IF ~FGt(t.battery, BATTERY_MIN) \/ ~FLt(t.battery, BATTERY_MAX) THEN "Validation"
    ELSE IF t.device_id = "" THEN "Validation"
    ELSE "ok"

\* validate(): "ok", or the Validation error of the first failing check.
validate(t) ==
    IF FLt(t.temperature, TEMP_MIN) \/ FGt(t.temperature, TEMP_MAX) THEN "Validation"
    ELSE IF FLt(t.humidity, HUMIDITY_MIN) \/ FGt(t.humidity, HUMIDITY_MAX) THEN "Validation"
    ELSE IF FLt(t.battery, BATTERY_MIN) \/ FGt(t.battery, BATTERY_MAX) THEN "Validation"
    ELSE IF t.device_id = "" THEN "Validation"
    ELSE "ok"

\* The primary key of the telemetry table.
Key(t) == <<t.device_id, t.timestamp>>

\* ---------------------------------------------------------------- payloads
\* The JSON number serde_json writes for an f64: a finite value as its decimal
\* digits (whole part and ten-thousandths), a NaN or an infinity as null.
FloatText(x) ==
    IF x.k = "fin"
    THEN [null |-> FALSE, int |-> x.v \div Scale, frac |-> x.v % Scale]
    ELSE [null |-> TRUE, int |-> 0, frac |-> 0]

\* TextFloat that reads the whole part only.
TextFloat_Whole(n) == Fin(n.int * Scale)

\* The f64 serde_json reads from a JSON number.
TextFloat(n) == Fin(n.int * Scale + n.frac)

\* A broker payload: the JSON text of a record (serde_json::to_string of the
\* derived Serialize, as the simulator publishes it), or bytes that are no JSON.
Json(t) ==
    [json |-> TRUE, device_id |-> t.device_id, timestamp |-> t.timestamp,
     temperature |-> FloatText(t.temperature), humidity |-> FloatText(t.humidity),
     battery |-> FloatText(t.battery)]
RecA == Telemetry("d1", 1, F(25), F(60), F(80))
\* The same key as RecA, another reading.
RecB == Telemetry("d1", 1, F(30), F(60), F(80))
\* Out of range (scenario S2).
RecHot == Telemetry("d2", 2, F(150), F(60), F(80))
Junk == [Json(RecA) EXCEPT !.json = FALSE]

ValidRecs == {RecA, RecB}
Payloads == {Json(RecA), Json(RecB), Json(RecHot), Junk}
NoPayload == Junk

\* serde_json::from_slice::<Telemetry>, its error mapped to Error::Validation.
\* A null where the struct has an f64 is a type error.
ParseOk(p) ==
    /\ p.json
    /\ ~p.temperature.null /\ ~p.humidity.null /\ ~p.battery.null

\* The Telemetry that from_slice returns for a payload it parses.
from_slice(p) ==
    Telemetry(p.device_id, p.timestamp, TextFloat(p.temperature),
              TextFloat(p.humidity), TextFloat(p.battery))

\* --------------------------------------------------------------- db errors
\* sqlx::Error values the execute() of the bulk insert can return.
DbErr(kind, code) == [kind |-> kind, code |-> code]
SqlStates == {"08000", "08003", "08006", "57P03", "53300", "23505", "none"}
AllDbErrors ==
    {DbErr("PoolTimedOut", "none"), DbErr("Io", "none"), DbErr("PoolClosed", "none"),
     DbErr("Protocol", "none")}
    \cup {DbErr("Database", c) : c \in SqlStates}
\* The errors the database of the pipeline runs answers with: one of each class.
DbErrors ==
    {DbErr("PoolTimedOut", "none"), DbErr("Database", "08006"),
     DbErr("Database", "23505"), DbErr("Protocol", "none")}

\* is_transient_error that takes every database-level error for transient.
is_transient_error_AnyCode(err) ==
    err.kind \in {"PoolTimedOut", "Io", "PoolClosed", "Database"}

is_transient_error(err) ==
    IF err.kind \in {"PoolTimedOut", "Io", "PoolClosed"} THEN TRUE
    ELSE IF err.kind = "Database"
         THEN err.code \in {"08000", "08003", "08006", "57P03", "53300"}
    ELSE FALSE

\* errors.rs: a value of the Error enum. The Database variant wraps the
\* sqlx::Error it was made from; the other variants carry text or library
\* errors the ingestor never inspects.
Error(kind) == [kind |-> kind, source |-> DbErr("none", "none")]
ErrorDatabase(err) == [kind |-> "Database", source |-> err]
ErrorKinds == {"Mqtt", "Database", "Json", "Validation", "ChannelSend", "Io", "Migration"}
Errors ==
    {Error(k) : k \in ErrorKinds \ {"Database"}}
    \cup {ErrorDatabase(err) : err \in AllDbErrors}

\* mqtt.rs is_retryable_error over the Error enum.
is_retryable_error(e) ==
    CASE e.kind = "ChannelSend" -> TRUE
      [] e.kind = "Database" -> TRUE
      [] e.kind = "Validation" -> FALSE
      [] e.kind = "Mqtt" -> FALSE
      [] e.kind = "Json" -> FALSE
      [] e.kind = "Io" -> FALSE
      [] e.kind = "Migration" -> FALSE

Min(a, b) == IF a < b THEN a ELSE b

VARIABLES
    max_batch,          \* BATCH_SIZE as parsed by main
    channel_capacity,   \* CHANNEL_CAPACITY as parsed by main
    main_pc,            \* "running" | "exited"
    c_pc,               \* where run_mqtt is
    c_payload,          \* the publish being processed
    c_id,               \* its arrival number
    attempt,            \* process_message_with_retry: attempt
    backoff_ms,         \* process_message_with_retry: backoff_ms
    chan,               \* the mpsc queue
    tx_alive,           \* a Sender exists
    rx_alive,           \* the Receiver exists
    w_pc,               \* where run_batcher is
    w_trigger,          \* which call site of flush_batch is active
    buffer,             \* run_batcher: buffer
    w_attempt,          \* flush_batch: attempt
    db_attempts,        \* insert_batch: attempts
    table,              \* rows of the telemetry table
    metrics,            \* the registry's counters, gauge and histogram count
    enq,                \* history: records in the order they entered the channel
    handed,             \* history: records in the order flushes took them
    inserted,           \* history: records of the batches an insert committed
    dropped,            \* history: records of the batches the writer gave up
    db_errs,            \* history: failed executions of the bulk insert
    flushes,            \* history: trigger and length of each batch flush_batch took
    flush_log,          \* history: executions and sleeps of the latest flush
    call,               \* a function called on its own: its name and argument
    result              \* what that call returned

vars == <<max_batch, channel_capacity, main_pc, c_pc, c_payload, c_id, attempt,
          backoff_ms, chan, tx_alive, rx_alive, w_pc, w_trigger, buffer,
          w_attempt, db_attempts, table, metrics, enq, handed, inserted,
          dropped, db_errs, flushes, flush_log, call, result>>

\* No function is being called on its own.
NoCall == [fn |-> "none", arg |-> 0]

\* No value has been returned yet.
NoResult == [done |-> FALSE, value |-> "none"]

fnVars == <<call, result>>
cfgVars == <<max_batch, channel_capacity>>
consumerVars == <<c_pc, c_payload, c_id, attempt, backoff_ms>>
writerVars == <<w_pc, w_trigger, buffer, w_attempt, db_attempts>>
histVars == <<handed, inserted, dropped, db_errs, flushes, flush_log>>

Running == main_pc = "running"

Bump(name) == [metrics EXCEPT ![name] = @ + 1]

Msg(id, t) == [id |-> id, t |-> t]

metrics0 ==
    [messages_total |-> 0, valid_messages_total |-> 0, invalid_messages_total |-> 0,
     db_failures_total |-> 0, channel_full_total |-> 0, batch_size |-> 0,
     ingest_latency_count |-> 0]

\* main.rs up to the spawns: the configuration is parsed, the channel made,
\* both tasks spawned and not yet polled.
Init ==
    /\ max_batch \in 0..MaxBatchCfg
    /\ channel_capacity \in 1..MaxCapacityCfg
    /\ main_pc = "running"
    /\ c_pc = "subscribe"
    /\ c_payload = NoPayload
    /\ c_id = 0
    /\ attempt = 0
    /\ backoff_ms = INITIAL_BACKOFF_MS
    /\ chan = <<>>
    /\ tx_alive = TRUE
    /\ rx_alive = TRUE
    /\ w_pc = "select"
    /\ w_trigger = "none"
    /\ buffer = <<>>
    /\ w_attempt = 0
    /\ db_attempts = 0
    /\ table = {}
    /\ metrics = metrics0
    /\ enq = <<>>
    /\ handed = <<>>
    /\ flushes = <<>>
    /\ flush_log = <<>>
    /\ call = NoCall
    /\ result = NoResult
    /\ inserted = <<>>
    /\ dropped = <<>>
    /\ db_errs = 0

\* ------------------------------------------------------------ the consumer
\* client.subscribe(...).await.map_err(Error::Mqtt)? : on Err run_mqtt returns,
\* the task ends and its Sender is dropped.
Subscribe ==
    /\ Running /\ c_pc = "subscribe"
    /\ \E ok \in BOOLEAN :
          IF ok THEN c_pc' = "poll" /\ tx_alive' = tx_alive
          ELSE c_pc' = "ended" /\ tx_alive' = FALSE
    /\ UNCHANGED <<fnVars, cfgVars, main_pc, c_payload, c_id, attempt, backoff_ms, chan,
                   rx_alive, writerVars, table, metrics, enq, histVars>>

\* eventloop.poll() returns Ok(Incoming(Publish)): count it and enter
\* process_message_with_retry (attempt = 0, backoff_ms = INITIAL_BACKOFF_MS).
PollPublishFrom(published) ==
    /\ Running /\ c_pc = "poll"
    /\ metrics.messages_total < MaxMsgs
    /\ \E p \in published :
          /\ c_payload' = p
          /\ c_id' = metrics.messages_total + 1
    /\ metrics' = Bump("messages_total")
    /\ attempt' = 0
    /\ backoff_ms' = INITIAL_BACKOFF_MS
    /\ c_pc' = "process"
    /\ UNCHANGED <<fnVars, cfgVars, main_pc, chan, tx_alive, rx_alive, writerVars, table,
                   enq, histVars>>

\* A publish of the pipeline runs.
PollPublish == PollPublishFrom(Payloads)

\* eventloop.poll() returns Err, or an event that is no publish: the error is
\* logged and slept on for one second, and the loop polls again. Nothing the
\* model holds changes, and the consumer is back at the poll.
PollOther ==
    /\ Running /\ c_pc = "poll"
    /\ UNCHANGED vars

\* RetryOrGiveUp that retries whatever the error is.
RetryOrGiveUp_RetryAll(e, att) ==
    IF att >= MAX_RETRIES THEN c_pc' = "count_invalid"
    ELSE c_pc' = "backoff"

\* RetryOrGiveUp with > for >= in the test of the attempt count.
RetryOrGiveUp_OneMore(e, att) ==
    IF att > MAX_RETRIES THEN c_pc' = "count_invalid"
    ELSE IF ~is_retryable_error(e) THEN c_pc' = "count_invalid"
    ELSE c_pc' = "backoff"

\* The Err(e) arm of process_message_with_retry after attempt number att.
RetryOrGiveUp(e, att) ==
    IF att >= MAX_RETRIES THEN c_pc' = "count_invalid"
    ELSE IF ~is_retryable_error(e) THEN c_pc' = "count_invalid"
    ELSE c_pc' = "backoff"

\* TrySend that never reports Full.
TrySend_NeverFull == IF ~rx_alive THEN "Closed" ELSE "Ok"

\* The outcome of tx.try_send on the channel as it is.
TrySend ==
    IF ~rx_alive THEN "Closed"
    ELSE IF Len(chan) >= channel_capacity THEN "Full"
    ELSE "Ok"

\* One attempt: attempt += 1, then process_message up to its first
\* suspension: parse, validate, try_send.
ProcessMessage ==
    /\ Running /\ c_pc = "process"
    /\ attempt' = attempt + 1
    /\ IF ~ParseOk(c_payload)
       THEN /\ RetryOrGiveUp(Error("Validation"), attempt + 1)
            /\ UNCHANGED <<chan, enq, metrics>>
       ELSE IF validate(from_slice(c_payload)) # "ok"
       THEN /\ RetryOrGiveUp(Error("Validation"), attempt + 1)
            /\ UNCHANGED <<chan, enq, metrics>>
       ELSE CASE TrySend = "Ok" ->
                   /\ chan' = Append(chan, Msg(c_id, from_slice(c_payload)))
                   /\ enq' = Append(enq, Msg(c_id, from_slice(c_payload)))
                   /\ c_pc' = "count_valid"
                   /\ UNCHANGED metrics
              [] TrySend = "Full" ->
                   /\ metrics' = Bump("channel_full_total")
                   /\ c_pc' = "full_sleep"
                   /\ UNCHANGED <<chan, enq>>
              [] TrySend = "Closed" ->
                   /\ RetryOrGiveUp(Error("ChannelSend"), attempt + 1)
                   /\ UNCHANGED <<chan, enq, metrics>>
    /\ UNCHANGED <<fnVars, cfgVars, main_pc, c_payload, c_id, backoff_ms, tx_alive, rx_alive,
                   writerVars, table, histVars>>

\* The 1 ms sleep after Full is over: start the blocking send.
FullSleepWake ==
    /\ Running /\ c_pc = "full_sleep"
    /\ c_pc' = "send"
    /\ UNCHANGED <<fnVars, cfgVars, main_pc, c_payload, c_id, attempt, backoff_ms, chan,
                   tx_alive, rx_alive, writerVars, table, metrics, enq, histVars>>


\* BlockingSend that completes without queueing the record.
BlockingSend_Lossy ==
    /\ Running /\ c_pc = "send"
    /\ rx_alive /\ Len(chan) < channel_capacity
    /\ c_pc' = "count_valid"
    /\ UNCHANGED <<fnVars, cfgVars, main_pc, c_payload, c_id, attempt, backoff_ms, chan,
                   tx_alive, rx_alive, writerVars, table, metrics, enq, histVars>>

\* tx.send(telemetry).await completes: with a free slot the record is queued,
\* with the receiver gone it fails with ChannelSend.
BlockingSend ==
    /\ Running /\ c_pc = "send"
    /\ \/ /\ ~rx_alive
          /\ RetryOrGiveUp(Error("ChannelSend"), attempt)
          /\ UNCHANGED <<chan, enq>>
       \/ /\ rx_alive /\ Len(chan) < channel_capacity
          /\ chan' = Append(chan, Msg(c_id, from_slice(c_payload)))
          /\ enq' = Append(enq, Msg(c_id, from_slice(c_payload)))
          /\ c_pc' = "count_valid"
    /\ UNCHANGED <<fnVars, cfgVars, main_pc, c_payload, c_id, attempt, backoff_ms, tx_alive,
                   rx_alive, writerVars, table, metrics, histVars>>

\* CountValid that counts the enqueue twice.
CountValid_Twice ==
    /\ Running /\ c_pc = "count_valid"
    /\ metrics' = [metrics EXCEPT !.valid_messages_total = @ + 2]
    /\ c_pc' = "poll"
    /\ c_payload' = NoPayload /\ c_id' = 0
    /\ UNCHANGED <<fnVars, cfgVars, main_pc, attempt, backoff_ms, chan, tx_alive, rx_alive,
                   writerVars, table, enq, histVars>>

\* CountValid after which the retry loop goes round again.
CountValid_Again ==
    /\ Running /\ c_pc = "count_valid"
    /\ metrics' = Bump("valid_messages_total")
    /\ c_pc' = "process"
    /\ UNCHANGED <<fnVars, cfgVars, main_pc, c_payload, c_id, attempt, backoff_ms, chan,
                   tx_alive, rx_alive, writerVars, table, enq, histVars>>

\* VALID_MESSAGES_TOTAL.inc(); Ok(()) ends the retry loop and the publish.
CountValid ==
    /\ Running /\ c_pc = "count_valid"
    /\ metrics' = Bump("valid_messages_total")
    /\ c_pc' = "poll"
    /\ c_payload' = NoPayload /\ c_id' = 0
    /\ UNCHANGED <<fnVars, cfgVars, main_pc, attempt, backoff_ms, chan, tx_alive, rx_alive,
                   writerVars, table, enq, histVars>>

\* The backoff sleep is over: double the backoff, capped, and try again.
\* Reached only when the Receiver is dropped under the consumer, which
\* run_batcher never does while a Sender lives.
BackoffWake ==
    /\ Running /\ c_pc = "backoff"
    /\ backoff_ms' = Min(backoff_ms * 2, MAX_BACKOFF_MS)
    /\ c_pc' = "process"
    /\ UNCHANGED <<fnVars, cfgVars, main_pc, c_payload, c_id, attempt, chan, tx_alive,
                   rx_alive, writerVars, table, metrics, enq, histVars>>


\* CountInvalid with the increment forgotten.
CountInvalid_Uncounted ==
    /\ Running /\ c_pc = "count_invalid"
    /\ c_pc' = "poll"
    /\ c_payload' = NoPayload /\ c_id' = 0
    /\ UNCHANGED <<fnVars, cfgVars, main_pc, attempt, backoff_ms, chan, tx_alive, rx_alive,
                   writerVars, table, metrics, enq, histVars>>

\* process_message_with_retry returned Err: INVALID_MESSAGES_TOTAL.inc().
CountInvalid ==
    /\ Running /\ c_pc = "count_invalid"
    /\ metrics' = Bump("invalid_messages_total")
    /\ c_pc' = "poll"
    /\ c_payload' = NoPayload /\ c_id' = 0
    /\ UNCHANGED <<fnVars, cfgVars, main_pc, attempt, backoff_ms, chan, tx_alive, rx_alive,
                   writerVars, table, enq, histVars>>

\* -------------------------------------------------------------- the storage
BatchRecs(batch) == {batch[i].t : i \in 1..Len(batch)}

Keys(rows) == {Key(r) : r \in rows}


\* insert_batch_inner without the conflict clause taking effect: every row
\* of the batch is stored.
insert_batch_inner_NoConflict(tbl, batch) == {tbl \cup BatchRecs(batch)}

\* INSERT ... SELECT * FROM UNNEST(...) ON CONFLICT (device_id, ts) DO NOTHING,
\* committed: the tables it can leave. A row whose key is present is skipped;
\* of several rows of the batch with one new key, one is stored (the order in
\* which the statement takes the rows is not specified).
insert_batch_inner(tbl, batch) ==
    LET fresh == Keys(BatchRecs(batch)) \ Keys(tbl)
        picks == {f \in [fresh -> BatchRecs(batch)] : \A k \in fresh : Key(f[k]) = k}
    IN {tbl \cup {f[k] : k \in fresh} : f \in picks}

\* --------------------------------------------------------------- the writer
\* flush_batch returned to run_batcher: the None arm breaks out of the loop,
\* run_batcher returns and drops the Receiver; the other arms loop.
AfterFlush(trigger) ==
    /\ w_trigger' = "none"
    /\ IF trigger = "close"
       THEN w_pc' = "done" /\ rx_alive' = FALSE
       ELSE w_pc' = "select" /\ rx_alive' = rx_alive


\* FlushBatch without the early return on an empty buffer.
FlushBatch_NoEmptyReturn(trigger, buf) ==
    /\ metrics' = [metrics EXCEPT !.batch_size = Len(buf)]
    /\ w_attempt' = 1
    /\ db_attempts' = 1
    /\ w_trigger' = trigger
    /\ w_pc' = "insert"
    /\ handed' = handed \o buf
    /\ flushes' = Append(flushes, [trigger |-> trigger, len |-> Len(buf)])
    /\ flush_log' = <<>>
    /\ rx_alive' = rx_alive

\* flush_batch(&pool, &mut buffer) entered with buffer buf, up to the first
\* suspension: the await of the first bulk insert.
FlushBatch(trigger, buf) ==
    IF Len(buf) = 0
    THEN /\ AfterFlush(trigger)
         /\ UNCHANGED <<w_attempt, db_attempts, metrics, handed, flushes, flush_log>>
    ELSE /\ metrics' = [metrics EXCEPT !.batch_size = Len(buf)]
         /\ w_attempt' = 1
         /\ db_attempts' = 1
         /\ w_trigger' = trigger
         /\ w_pc' = "insert"
         /\ handed' = handed \o buf
         /\ flushes' = Append(flushes, [trigger |-> trigger, len |-> Len(buf)])
         /\ flush_log' = <<>>
         /\ rx_alive' = rx_alive


\* SizeTrigger with the size check lost: only the timer flushes.
SizeTrigger_Never(buf) == FALSE

\* SizeTrigger with > for >=.
SizeTrigger_Strict(buf) == Len(buf) > max_batch

\* SizeTrigger that fires one record early.
SizeTrigger_Early(buf) == Len(buf) + 1 >= max_batch

\* The size trigger of the Some arm.
SizeTrigger(buf) == Len(buf) >= max_batch


\* RecvSome that puts the received record in front of the buffer.
RecvSome_Front ==
    /\ Running /\ w_pc = "select"
    /\ chan # <<>>
    /\ chan' = Tail(chan)
    /\ buffer' = <<Head(chan)>> \o buffer
    /\ IF SizeTrigger(buffer')
       THEN FlushBatch("size", buffer')
       ELSE UNCHANGED <<w_pc, w_trigger, w_attempt, db_attempts, metrics, handed, flushes, flush_log,
                        rx_alive>>
    /\ UNCHANGED <<fnVars, cfgVars, main_pc, consumerVars, tx_alive, table, enq, inserted,
                   dropped, db_errs>>

\* select!: rx.recv() yields Some(t).
RecvSome ==
    /\ Running /\ w_pc = "select"
    /\ chan # <<>>
    /\ chan' = Tail(chan)
    /\ buffer' = Append(buffer, Head(chan))
    /\ IF SizeTrigger(buffer')
       THEN FlushBatch("size", buffer')
       ELSE UNCHANGED <<w_pc, w_trigger, w_attempt, db_attempts, metrics, handed, flushes, flush_log,
                        rx_alive>>
    /\ UNCHANGED <<fnVars, cfgVars, main_pc, consumerVars, tx_alive, table, enq, inserted,
                   dropped, db_errs>>


\* RecvNone that breaks out of the loop without the final flush.
RecvNone_NoFlush ==
    /\ Running /\ w_pc = "select"
    /\ chan = <<>> /\ ~tx_alive
    /\ w_pc' = "done" /\ rx_alive' = FALSE
    /\ UNCHANGED <<fnVars, cfgVars, main_pc, consumerVars, chan, tx_alive, buffer, table,
                   enq, inserted, dropped, db_errs, w_trigger, w_attempt,
                   db_attempts, metrics, handed, flushes, flush_log>>

\* select!: rx.recv() yields None: every Sender is gone and the queue is empty.
RecvNone ==
    /\ Running /\ w_pc = "select"
    /\ chan = <<>> /\ ~tx_alive
    /\ FlushBatch("close", buffer)
    /\ UNCHANGED <<fnVars, cfgVars, main_pc, consumerVars, chan, tx_alive, buffer, table,
                   enq, inserted, dropped, db_errs>>

\* Tick that never flushes.
Tick_NoFlush ==
    /\ Running /\ w_pc = "select"
    /\ UNCHANGED vars

\* select!: ticker.tick() fires.
Tick ==
    /\ Running /\ w_pc = "select"
    /\ IF buffer # <<>>
       THEN FlushBatch("timer", buffer)
       ELSE UNCHANGED <<w_pc, w_trigger, w_attempt, db_attempts, metrics, handed, flushes, flush_log,
                        rx_alive>>
    /\ UNCHANGED <<fnVars, cfgVars, main_pc, consumerVars, chan, tx_alive, buffer, table,
                   enq, inserted, dropped, db_errs>>


RECURSIVE Pow2(_)
Pow2(n) == IF n = 0 THEN 1 ELSE 2 * Pow2(n - 1)

\* insert_batch: wait_ms = 100 * 2_u64.pow(attempts - 1).min(32).
wait_ms(attempts) == 100 * Min(Pow2(attempts - 1), 32)

\* flush_backoff_ms without the doubling.
flush_backoff_ms_Flat(att) == 100

\* flush_batch: backoff_ms = 100 * 2_u64.pow(attempt - 1).
flush_backoff_ms(att) == 100 * Pow2(att - 1)

\* transient or permanent, as insert_batch classes the error of an execution.
ErrClass(err) == IF is_transient_error(err) THEN "transient" ELSE "permanent"

\* Entries of flush_log: an execution of the bulk insert with its outcome,
\* made in call number w_attempt of insert_batch as execution number
\* db_attempts of that call; and a sleep of ms milliseconds begun by fn.
Executed(out) ==
    [ev |-> "exec", call |-> w_attempt, n |-> db_attempts, out |-> out, ms |-> 0]
Slept(fn, ms) ==
    [ev |-> "sleep", call |-> w_attempt, n |-> db_attempts, out |-> fn, ms |-> ms]

\* InsertOk that leaves the gauge at the batch length.
InsertOk_GaugeKept ==
    /\ Running /\ w_pc = "insert"
    /\ table' \in insert_batch_inner(table, buffer)
    /\ metrics' = [metrics EXCEPT !.ingest_latency_count = @ + 1]
    /\ inserted' = inserted \o buffer
    /\ buffer' = <<>>
    /\ AfterFlush(w_trigger)
    /\ flush_log' = Append(flush_log, Executed("ok"))
    /\ UNCHANGED <<fnVars, cfgVars, main_pc, consumerVars, chan, tx_alive, w_attempt,
                   db_attempts, enq, handed, flushes, dropped, db_errs>>

\* InsertOk that leaves the batch in the buffer.
InsertOk_BufferKept ==
    /\ Running /\ w_pc = "insert"
    /\ table' \in insert_batch_inner(table, buffer)
    /\ metrics' = [metrics EXCEPT !.ingest_latency_count = @ + 1, !.batch_size = 0]
    /\ inserted' = inserted \o buffer
    /\ AfterFlush(w_trigger)
    /\ flush_log' = Append(flush_log, Executed("ok"))
    /\ UNCHANGED <<fnVars, cfgVars, main_pc, consumerVars, chan, tx_alive, w_attempt,
                   db_attempts, enq, handed, flushes, dropped, db_errs, buffer>>

\* The bulk insert commits: insert_batch returns Ok, flush_batch observes the
\* latency, clears the buffer, resets the gauge and returns.
InsertOk ==
    /\ Running /\ w_pc = "insert"
    /\ table' \in insert_batch_inner(table, buffer)
    /\ metrics' = [metrics EXCEPT !.ingest_latency_count = @ + 1, !.batch_size = 0]
    /\ inserted' = inserted \o buffer
    /\ buffer' = <<>>
    /\ AfterFlush(w_trigger)
    /\ flush_log' = Append(flush_log, Executed("ok"))
    /\ UNCHANGED <<fnVars, cfgVars, main_pc, consumerVars, chan, tx_alive, w_attempt,
                   db_attempts, enq, handed, flushes, dropped, db_errs>>

\* The bulk insert fails with err. insert_batch sleeps and retries a transient
\* error while attempts < max_attempts; otherwise it returns the error, and
\* flush_batch either sleeps before its next attempt or gives the batch up.
InsertFails(cap) ==
    /\ Running /\ w_pc = "insert"
    /\ db_errs < cap
    /\ db_errs' = db_errs + 1
    /\ \E err \in DbErrors :
          IF db_attempts >= max_attempts \/ ~is_transient_error(err)
          THEN IF w_attempt >= FLUSH_MAX_RETRIES
               THEN /\ dropped' = dropped \o buffer
                    /\ buffer' = <<>>
                    /\ metrics' = [metrics EXCEPT !.batch_size = 0]
                    /\ flush_log' = Append(flush_log, Executed(ErrClass(err)))
                    /\ AfterFlush(w_trigger)
               ELSE /\ w_pc' = "retry_sleep"
                    /\ flush_log' = flush_log \o
                          <<Executed(ErrClass(err)),
                            Slept("flush_batch", flush_backoff_ms(w_attempt))>>
                    /\ UNCHANGED <<buffer, metrics, dropped, w_trigger, rx_alive>>
          ELSE /\ metrics' = Bump("db_failures_total")
               /\ w_pc' = "db_sleep"
               /\ flush_log' = flush_log \o
                     <<Executed(ErrClass(err)),
                       Slept("insert_batch", wait_ms(db_attempts))>>
               /\ UNCHANGED <<buffer, dropped, w_trigger, rx_alive>>
    /\ UNCHANGED <<fnVars, cfgVars, main_pc, consumerVars, chan, tx_alive, w_attempt,
                   db_attempts, table, enq, handed, flushes, inserted>>

\* The database of the pipeline runs: at most MaxDbErrors executions fail.
InsertErr == InsertFails(MaxDbErrors)

\* A database that may fail every execution of a whole flush.
InsertErrAny == InsertFails(FLUSH_MAX_RETRIES * max_attempts)

\* DbSleepWake that forgets to count the execution.
DbSleepWake_Uncounted ==
    /\ Running /\ w_pc = "db_sleep"
    /\ w_pc' = "insert"
    /\ UNCHANGED <<fnVars, cfgVars, main_pc, consumerVars, chan, tx_alive, rx_alive,
                   w_trigger, buffer, w_attempt, db_attempts, table, metrics, enq,
                   histVars>>

\* insert_batch's sleep is over: attempts += 1 and execute again.
DbSleepWake ==
    /\ Running /\ w_pc = "db_sleep"
    /\ db_attempts' = db_attempts + 1
    /\ w_pc' = "insert"
    /\ UNCHANGED <<fnVars, cfgVars, main_pc, consumerVars, chan, tx_alive, rx_alive,
                   w_trigger, buffer, w_attempt, table, metrics, enq, histVars>>

\* RetrySleepWake that retries with the batch short of its first record.
RetrySleepWake_Shrunk ==
    /\ Running /\ w_pc = "retry_sleep"
    /\ w_attempt' = w_attempt + 1
    /\ db_attempts' = 1
    /\ w_pc' = "insert"
    /\ buffer' = Tail(buffer)
    /\ UNCHANGED <<fnVars, cfgVars, main_pc, consumerVars, chan, tx_alive, rx_alive,
                   w_trigger, table, metrics, enq, histVars>>

\* flush_batch's backoff is over: attempt += 1 and call insert_batch again.
RetrySleepWake ==
    /\ Running /\ w_pc = "retry_sleep"
    /\ w_attempt' = w_attempt + 1
    /\ db_attempts' = 1
    /\ w_pc' = "insert"
    /\ UNCHANGED <<fnVars, cfgVars, main_pc, consumerVars, chan, tx_alive, rx_alive,
                   w_trigger, buffer, table, metrics, enq, histVars>>

\* ------------------------------------------------------------------- main
\* The select! of main over the three JoinHandles and ctrl_c: whichever
\* completes, main logs and returns; the runtime is dropped with it, and a
\* task that has not finished is never polled again.
MainSelect ==
    /\ Running
    /\ \E branch \in {"mqtt", "batcher", "server", "ctrl_c"} :
          CASE branch = "mqtt" -> c_pc = "ended"
            [] branch = "batcher" -> w_pc = "done"
            [] OTHER -> TRUE
    /\ main_pc' = "exited"
    /\ UNCHANGED <<fnVars, cfgVars, consumerVars, chan, tx_alive, rx_alive, writerVars,
                   table, metrics, enq, histVars>>

ConsumerNext ==
    \/ Subscribe \/ PollPublish \/ PollOther \/ ProcessMessage
    \/ FullSleepWake \/ BlockingSend \/ CountValid \/ CountInvalid

WriterNext ==
    \/ RecvSome \/ RecvNone \/ Tick \/ InsertOk \/ InsertErr \/ DbSleepWake
    \/ RetrySleepWake

Next == ConsumerNext \/ WriterNext \/ MainSelect

Spec == Init /\ [][Next]_vars

\* run_batcher driven through its Receiver by any holder of the Sender: the
\* holder sends valid records while there is room and drops the Sender when
\* it likes. The writer task is polled whenever it can run.
InitBatcher ==
    /\ max_batch \in 0..MaxBatchCfg
    /\ channel_capacity \in 1..MaxCapacityCfg
    /\ main_pc = "running"
    /\ c_pc = "external"
    /\ c_payload = NoPayload
    /\ c_id = 0
    /\ attempt = 0
    /\ backoff_ms = INITIAL_BACKOFF_MS
    /\ chan = <<>>
    /\ tx_alive = TRUE
    /\ rx_alive = TRUE
    /\ w_pc = "select"
    /\ w_trigger = "none"
    /\ buffer = <<>>
    /\ w_attempt = 0
    /\ db_attempts = 0
    /\ table = {}
    /\ metrics = metrics0
    /\ enq = <<>>
    /\ handed = <<>>
    /\ flushes = <<>>
    /\ flush_log = <<>>
    /\ call = NoCall
    /\ result = NoResult
    /\ inserted = <<>>
    /\ dropped = <<>>
    /\ db_errs = 0

\* tx.try_send(t) returning Ok.
SenderSends ==
    /\ c_pc = "external" /\ tx_alive
    /\ Len(enq) < MaxMsgs
    /\ TrySend = "Ok"
    /\ \E t \in ValidRecs :
          /\ chan' = Append(chan, Msg(Len(enq) + 1, t))
          /\ enq' = Append(enq, Msg(Len(enq) + 1, t))
    /\ UNCHANGED <<fnVars, cfgVars, main_pc, consumerVars, tx_alive, rx_alive, writerVars,
                   table, metrics, histVars>>

\* The last Sender is dropped.
SenderDropped ==
    /\ c_pc = "external" /\ tx_alive
    /\ tx_alive' = FALSE
    /\ UNCHANGED <<fnVars, cfgVars, main_pc, consumerVars, chan, rx_alive, writerVars,
                   table, metrics, enq, histVars>>

NextBatcher == SenderSends \/ SenderDropped \/ WriterNext

SpecBatcher == InitBatcher /\ [][NextBatcher]_vars /\ WF_vars(WriterNext)

\* The pipeline with a database that answers every insert with success and
\* no shutdown: scenario S6. A runnable task is polled again, a sleep ends
\* and the ticker keeps firing, hence the weak fairness of both tasks.
ConsumerSteps ==
    \/ Subscribe \/ ProcessMessage \/ FullSleepWake \/ BlockingSend
    \/ CountValid \/ CountInvalid

HealthyWriterSteps == RecvSome \/ RecvNone \/ Tick \/ InsertOk

NextHealthy == PollPublish \/ PollOther \/ ConsumerSteps \/ HealthyWriterSteps

SpecHealthy ==
    /\ Init /\ [][NextHealthy]_vars
    /\ WF_vars(ConsumerSteps) /\ WF_vars(HealthyWriterSteps)

\* --------------------------------------------------------- derived notions
\* The writer is inside flush_batch, awaiting an insert or sleeping.
InFlush == w_pc \in {"insert", "db_sleep", "retry_sleep"}

\* No publish is in the middle of process_message_with_retry.
Quiescent == c_pc \in {"subscribe", "poll", "ended"}

Ids(msgs) == {msgs[i].id : i \in 1..Len(msgs)}

\* ------------------------------------------------------------------ claims

\* C1: valid_messages_total + invalid_messages_total never exceeds
\* messages_total, and when no publish is being processed the two are equal:
\* each publish received was counted once, as valid or as invalid.
C1_CountersBalanced ==
    /\ metrics.valid_messages_total + metrics.invalid_messages_total
          <= metrics.messages_total
    /\ Quiescent =>
          metrics.valid_messages_total + metrics.invalid_messages_total
             = metrics.messages_total

\* A quiescent consumer that has counted one valid and one invalid publish.
C1_Witness ==
    /\ c_pc = "poll"
    /\ metrics.valid_messages_total = 1
    /\ metrics.invalid_messages_total = 1
    /\ metrics.messages_total = 2

\* C2: whenever the writer waits in its select the buffer holds at most
\* max_batch records, for every configured max_batch.
C2_BufferBounded ==
    w_pc = "select" => (0 <= Len(buffer) /\ Len(buffer) <= max_batch)

\* The writer back at its select after a flush, holding a record short of
\* the size trigger.
C2_Witness ==
    /\ w_pc = "select"
    /\ max_batch = 2
    /\ Len(buffer) = 1
    /\ Len(inserted) = 1

\* The consumer holds publish i for the blocking send after a Full.
Held(i) == c_id = i /\ c_pc \in {"full_sleep", "send"}

\* C3: a valid record that meets a full channel is not dropped: the step
\* that sees Full counts it in channel_full_total and keeps the record for
\* the blocking send; and with the writer running and inserts succeeding,
\* every record so held is eventually part of a committed insert.
C3_BackpressureLosesNothing ==
    /\ [][(c_pc = "process" /\ c_pc' # "process" /\ ParseOk(c_payload)
             /\ validate(from_slice(c_payload)) = "ok" /\ TrySend = "Full")
          => (/\ c_pc' = "full_sleep"
              /\ metrics'.channel_full_total = metrics.channel_full_total + 1
              /\ UNCHANGED <<c_payload, c_id>>)]_vars
    /\ \A i \in 1..MaxMsgs : Held(i) ~> (i \in Ids(inserted))

\* A record that waited in the blocking send has been inserted.
C3_Witness ==
    /\ metrics.channel_full_total >= 1
    /\ Len(inserted) = 2
    /\ metrics.valid_messages_total = 2
    /\ Cardinality(table) = 1

\* C4: the records the writer hands to its flushes, in flush order and
\* buffer order, followed by the records it still buffers and those still
\* queued, are the records in the order the consumer enqueued them.
C4_OrderPreserved ==
    enq = handed \o (IF InFlush THEN <<>> ELSE buffer) \o chan

\* Two records, the second enqueued by the blocking send, both handed over.
C4_Witness ==
    /\ Len(handed) = 2
    /\ handed = enq
    /\ metrics.channel_full_total >= 1
    /\ handed[1].t # handed[2].t

\* C5: the table never holds two rows with one (device_id, ts); a stored row
\* is never changed or removed by an insert; and every record of a committed
\* batch has exactly one row with its key, however often it was delivered.
C5_StorageIdempotent ==
    /\ [](\A r1, r2 \in table : Key(r1) = Key(r2) => r1 = r2)
    /\ [](\A i \in 1..Len(inserted) :
            Cardinality({r \in table : Key(r) = Key(inserted[i].t)}) = 1)
    /\ [][table \subseteq table']_vars

\* Two committed deliveries of one key in different batches, one row stored.
C5_Witness ==
    /\ Len(inserted) = 2
    /\ Key(inserted[1].t) = Key(inserted[2].t)
    /\ inserted[1].t # inserted[2].t
    /\ metrics.ingest_latency_count = 2
    /\ table = {inserted[1].t}

\* C6 as stated: a size-triggered flush hands over exactly max_batch records.
C6_SizeFlushHasMaxBatch ==
    (InFlush /\ w_trigger = "size") => Len(buffer) = max_batch

\* C6 amended: for max_batch >= 1 the writer never rests with max_batch
\* records (the receive that reaches max_batch starts the flush in the same
\* step) and a size-triggered flush hands over exactly max_batch records;
\* with max_batch = 0 every received record is flushed at once, alone.
C6_SizeTriggerExact ==
    /\ (InFlush /\ w_trigger = "size") =>
          Len(buffer) = (IF max_batch = 0 THEN 1 ELSE max_batch)
    /\ w_pc = "select" =>
          Len(buffer) < (IF max_batch = 0 THEN 1 ELSE max_batch)

\* A size-triggered flush of a full batch of two.
C6_Witness ==
    /\ w_pc = "insert" /\ w_trigger = "size"
    /\ max_batch = 2 /\ Len(buffer) = 2

\* C7: no flush runs on an empty batch, and a step of the writer at its
\* select that finds the buffer empty and neither receives a record nor
\* sees the channel closed (a tick) changes nothing: not the writer, not the
\* table, not the gauge, not the histogram.
C7_EmptyTickNoFlush ==
    /\ [](InFlush => buffer # <<>>)
    /\ [][(w_pc = "select" /\ buffer = <<>> /\ chan' = chan /\ w_pc' # "done")
          => UNCHANGED <<writerVars, table, handed, flushes, flush_log, inserted, dropped,
                         metrics.batch_size, metrics.ingest_latency_count,
                         metrics.db_failures_total>>]_vars

\* The writer idle on an empty buffer after one flush: ticks keep firing and
\* the histogram still counts one observation.
C7_Witness ==
    /\ w_pc = "select" /\ buffer = <<>> /\ chan = <<>>
    /\ metrics.ingest_latency_count = 1
    /\ metrics.batch_size = 0
    /\ Len(handed) = 1

\* C8: the gauge is the length of the batch for all of a flush, retries and
\* sleeps included, and 0 whenever the writer is not in a flush; a flush
\* that succeeds leaves the buffer empty and the gauge 0.
C8_GaugeTracksFlush ==
    /\ [](InFlush => (metrics.batch_size = Len(buffer) /\ Len(buffer) > 0))
    /\ [](~InFlush => metrics.batch_size = 0)
    /\ [][metrics'.ingest_latency_count # metrics.ingest_latency_count
          => (buffer' = <<>> /\ metrics'.batch_size = 0)]_vars

\* A flush of two records in the sleep before its third attempt.
C8_Witness ==
    /\ w_pc = "retry_sleep" /\ w_attempt = 2
    /\ Len(buffer) = 2
    /\ metrics.batch_size = 2

\* C9: once every Sender is gone the writer ends, and when it has ended the
\* channel is drained, the buffer is empty and every record ever enqueued
\* was handed to a flush.
C9_CloseDrainsAndFlushes ==
    /\ [](w_pc = "done" =>
            (/\ ~tx_alive /\ chan = <<>> /\ buffer = <<>>
             /\ handed = enq
             /\ Ids(enq) = Ids(inserted) \cup Ids(dropped)))
    /\ (~tx_alive) ~> (w_pc = "done")

\* The final flush of the record left in the buffer when the channel closed,
\* after an earlier flush.
C9_Witness ==
    /\ InFlush /\ w_trigger = "close"
    /\ Len(buffer) = 1 /\ Len(handed) = 2

\* C10 as stated: when main has returned, no enqueued record is left without
\* a flush attempt and no flush is cut off.
C10_ShutdownFlushesAll ==
    main_pc = "exited" => (handed = enq /\ ~InFlush)

\* ---------------------------------------------------------------------------
\* The Prometheus counters (metrics.rs); batch_size is a gauge and the latency
\* histogram is only observed on success, so neither counts a discard.
Counters ==
    {"messages_total", "valid_messages_total", "invalid_messages_total",
     "db_failures_total", "channel_full_total"}

\* C11: loss is never silent.  Every step in which the pipeline discards
\* records - the consumer giving a message up after its final failure, or the
\* writer clearing a batch after its 3rd failed attempt - strictly increases
\* some metrics counter, whatever kind of storage error caused a dropped batch.
C11_LossCounted ==
    /\ [][(c_pc = "count_invalid" /\ c_pc' # "count_invalid")
            => metrics'.invalid_messages_total > metrics.invalid_messages_total]_vars
    /\ [][(Len(dropped') > Len(dropped))
            => \E k \in Counters : metrics'[k] > metrics[k]]_vars

\* ---------------------------------------------------------------------------
\* The pure functions called on their own, as the unit tests of validate.rs
\* and mqtt.rs call them: one call, its argument drawn from the samples below.

\* f64 samples: the non-finite values, each bound of a range, the values just
\* outside it (one ten-thousandth away) and a value inside.
TemperatureSamples ==
    {NaN, PosInf, NegInf, Fin(TEMP_MIN.v - 1), TEMP_MIN, F(25), TEMP_MAX,
     Fin(TEMP_MAX.v + 1)}
HumiditySamples ==
    {NaN, PosInf, NegInf, Fin(HUMIDITY_MIN.v - 1), HUMIDITY_MIN, F(60),
     HUMIDITY_MAX, Fin(HUMIDITY_MAX.v + 1)}
BatterySamples ==
    {NaN, PosInf, NegInf, Fin(BATTERY_MIN.v - 1), BATTERY_MIN, F(80),
     BATTERY_MAX, Fin(BATTERY_MAX.v + 1)}
DeviceIdSamples == {"", "d1"}

SampleRecords ==
    {Telemetry(d, 1, temp, hum, bat) :
        d \in DeviceIdSamples, temp \in TemperatureSamples,
        hum \in HumiditySamples, bat \in BatterySamples}

Calls ==
    {[fn |-> "validate", arg |-> t] : t \in SampleRecords}
    \cup {[fn |-> "is_retryable_error", arg |-> e] : e \in Errors}
    \cup {[fn |-> "is_transient_error", arg |-> err] : err \in AllDbErrors}

InitFunctions ==
    /\ max_batch = 1
    /\ channel_capacity = 1
    /\ main_pc = "running"
    /\ c_pc = "external"
    /\ c_payload = NoPayload
    /\ c_id = 0
    /\ attempt = 0
    /\ backoff_ms = INITIAL_BACKOFF_MS
    /\ chan = <<>>
    /\ tx_alive = TRUE
    /\ rx_alive = TRUE
    /\ w_pc = "external"
    /\ w_trigger = "none"
    /\ buffer = <<>>
    /\ w_attempt = 0
    /\ db_attempts = 0
    /\ table = {}
    /\ metrics = metrics0
    /\ enq = <<>>
    /\ handed = <<>>
    /\ inserted = <<>>
    /\ dropped = <<>>
    /\ db_errs = 0
    /\ flushes = <<>>
    /\ flush_log = <<>>
    /\ call \in Calls
    /\ result = NoResult

\* validate(&telemetry) returns.
CallValidate ==
    /\ call.fn = "validate" /\ ~result.done
    /\ result' = [done |-> TRUE, value |-> validate(call.arg)]
    /\ UNCHANGED <<call, cfgVars, main_pc, consumerVars, chan, tx_alive, rx_alive,
                   writerVars, table, metrics, enq, histVars>>

\* is_retryable_error(&e) returns.
CallIsRetryable ==
    /\ call.fn = "is_retryable_error" /\ ~result.done
    /\ result' = [done |-> TRUE, value |-> is_retryable_error(call.arg)]
    /\ UNCHANGED <<call, cfgVars, main_pc, consumerVars, chan, tx_alive, rx_alive,
                   writerVars, table, metrics, enq, histVars>>

\* is_transient_error(&err) returns.
CallIsTransient ==
    /\ call.fn = "is_transient_error" /\ ~result.done
    /\ result' = [done |-> TRUE, value |-> is_transient_error(call.arg)]
    /\ UNCHANGED <<call, cfgVars, main_pc, consumerVars, chan, tx_alive, rx_alive,
                   writerVars, table, metrics, enq, histVars>>

NextFunctions == CallValidate \/ CallIsRetryable \/ CallIsTransient

SpecFunctions == InitFunctions /\ [][NextFunctions]_vars

Returned(fn) == call.fn = fn /\ result.done

\* The constraints of the data model on one reading: finite and within
\* [lo, hi], both ends included.
InRange(x, lo, hi) == x.k = "fin" /\ lo.v <= x.v /\ x.v <= hi.v

\* A finite reading outside [lo, hi].
FiniteOutside(x, lo, hi) == x.k = "fin" /\ (x.v < lo.v \/ x.v > hi.v)

\* A record that satisfies every constraint of the data model.
MeetsConstraints(t) ==
    /\ t.device_id # ""
    /\ InRange(t.temperature, TEMP_MIN, TEMP_MAX)
    /\ InRange(t.humidity, HUMIDITY_MIN, HUMIDITY_MAX)
    /\ InRange(t.battery, BATTERY_MIN, BATTERY_MAX)

\* C12: validate rejects every record that violates a constraint of the data
\* model: every record it accepts has a non-empty device_id and a finite
\* temperature in [-50, 100], humidity in [0, 100] and battery in [0, 100];
\* a NaN or an infinity in any of the three is rejected.
C12_ValidateRejectsViolations ==
    (Returned("validate") /\ result.value = "ok") => MeetsConstraints(call.arg)

\* C13: validate accepts every record that satisfies all constraints, the
\* bounds of the ranges included (temperature -50.0 or 100.0, humidity and
\* battery 0.0 or 100.0), and rejects a record with a reading just outside a
\* bound.
C13_InclusiveBounds ==
    Returned("validate") =>
        /\ MeetsConstraints(call.arg) => result.value = "ok"
        /\ (\/ FiniteOutside(call.arg.temperature, TEMP_MIN, TEMP_MAX)
            \/ FiniteOutside(call.arg.humidity, HUMIDITY_MIN, HUMIDITY_MAX)
            \/ FiniteOutside(call.arg.battery, BATTERY_MIN, BATTERY_MAX))
           => result.value = "Validation"

\* A record with every reading on a bound is accepted.
C13_Witness ==
    /\ Returned("validate")
    /\ call.arg.temperature = TEMP_MIN
    /\ call.arg.humidity = HUMIDITY_MAX
    /\ call.arg.battery = BATTERY_MIN
    /\ call.arg.device_id # ""
    /\ result.value = "ok"

\* C19: is_retryable_error is true exactly for ChannelSend and for a Database
\* error that is transient; it is false for Validation, Json, Mqtt, Io and
\* Migration errors and for a permanent Database error.
C19_RetryableSet ==
    Returned("is_retryable_error") =>
        (result.value <=>
            \/ call.arg.kind = "ChannelSend"
            \/ call.arg.kind = "Database" /\ is_transient_error(call.arg.source))

\* ---------------------------------------------------------------------------
\* A payload that is no JSON of a Telemetry, or whose record breaks a
\* constraint of the data model.
BadPayload(p) == ~ParseOk(p) \/ ~MeetsConstraints(from_slice(p))

\* C14: a publish whose payload fails JSON parsing or validation is dropped
\* after one call of process_message: nothing is enqueued and no row can
\* appear for it, valid_messages_total does not change and
\* invalid_messages_total increases by exactly 1 for that publish.
C14_InvalidDropped ==
    /\ [](\A i \in 1..Len(enq) : MeetsConstraints(enq[i].t))
    /\ [](\A r \in table : MeetsConstraints(r))
    /\ []((c_pc = "count_invalid" /\ BadPayload(c_payload))
            => (attempt = 1 /\ c_id \notin Ids(enq)))
    /\ [][(c_pc = "process" /\ BadPayload(c_payload) /\ c_pc' # c_pc)
            => (c_pc' = "count_invalid" /\ UNCHANGED <<chan, enq, metrics, table>>)]_vars
    /\ [][(c_pc = "count_invalid" /\ c_pc' # c_pc)
            => /\ c_pc' = "poll"
               /\ metrics'.invalid_messages_total = metrics.invalid_messages_total + 1
               /\ metrics'.valid_messages_total = metrics.valid_messages_total
               /\ UNCHANGED <<chan, enq, table>>]_vars

\* Two publishes were received and dropped, nothing was enqueued.
C14_Witness ==
    /\ c_pc = "poll"
    /\ metrics.messages_total = 2
    /\ metrics.invalid_messages_total = 2
    /\ metrics.valid_messages_total = 0
    /\ enq = <<>> /\ table = {}

\* ---------------------------------------------------------------------------
\* run_mqtt and process_message driven as the tests of mqtt.rs drive them:
\* the caller made the channel and holds the Receiver, receives from it when
\* it likes and may drop it. The publishes carry the records below.

\* A reading with a fraction, the other readings on a bound.
RecFrac == Telemetry("d3", 3, Fin(255000), HUMIDITY_MAX, BATTERY_MIN)
RecNoId == Telemetry("", 1, F(25), F(60), F(80))
RecNaN == Telemetry("d1", 1, NaN, F(60), F(80))
HarnessRecords == {RecA, RecB, RecFrac, RecHot, RecNoId, RecNaN}
HarnessPayloads == {Json(t) : t \in HarnessRecords} \cup {Junk}

InitConsumer ==
    /\ max_batch = 1
    /\ channel_capacity \in 1..MaxCapacityCfg
    /\ main_pc = "running"
    /\ c_pc = "subscribe"
    /\ c_payload = NoPayload
    /\ c_id = 0
    /\ attempt = 0
    /\ backoff_ms = INITIAL_BACKOFF_MS
    /\ chan = <<>>
    /\ tx_alive = TRUE
    /\ rx_alive = TRUE
    /\ w_pc = "external"
    /\ w_trigger = "none"
    /\ buffer = <<>>
    /\ w_attempt = 0
    /\ db_attempts = 0
    /\ table = {}
    /\ metrics = metrics0
    /\ enq = <<>>
    /\ handed = <<>>
    /\ inserted = <<>>
    /\ dropped = <<>>
    /\ db_errs = 0
    /\ flushes = <<>>
    /\ flush_log = <<>>
    /\ call = NoCall
    /\ result = NoResult

\* A publish of the harness.
PollPublishAny == PollPublishFrom(HarnessPayloads)

\* rx.recv().await returns Some(record): the caller keeps it in buffer.
ReceiverRecvs ==
    /\ w_pc = "external" /\ rx_alive
    /\ chan # <<>>
    /\ buffer' = Append(buffer, Head(chan))
    /\ chan' = Tail(chan)
    /\ UNCHANGED <<fnVars, cfgVars, main_pc, consumerVars, tx_alive, rx_alive, w_pc,
                   w_trigger, w_attempt, db_attempts, table, metrics, enq, histVars>>

\* The caller drops the Receiver: the channel is closed.
ReceiverDropped ==
    /\ w_pc = "external" /\ rx_alive
    /\ rx_alive' = FALSE
    /\ UNCHANGED <<fnVars, cfgVars, main_pc, consumerVars, chan, tx_alive, writerVars,
                   table, metrics, enq, histVars>>

NextConsumer ==
    \/ Subscribe \/ PollPublishAny \/ PollOther \/ ProcessMessage
    \/ FullSleepWake \/ BlockingSend \/ BackoffWake \/ CountValid \/ CountInvalid
    \/ ReceiverRecvs \/ ReceiverDropped

SpecConsumer == InitConsumer /\ [][NextConsumer]_vars

C18_RetryBounded ==
    /\ [](attempt <= 3)
    /\ [](\A k \in {"Validation", "Json", "Mqtt", "Io", "Migration"} :
            ~is_retryable_error(Error(k)))
    /\ []((c_pc = "count_invalid" /\ BadPayload(c_payload)) => attempt = 1)
    /\ []((c_pc = "backoff" \/ (c_pc = "process" /\ attempt >= 1))
            => (attempt < 3 /\ ~BadPayload(c_payload) /\ ~rx_alive))
    /\ [][(c_pc = "process" /\ BadPayload(c_payload) /\ c_pc' # c_pc)
            => (c_pc' = "count_invalid" /\ attempt' = 1)]_vars
    /\ [][(attempt' # attempt)
            => \/ c_pc = "poll" /\ attempt' = 0
               \/ c_pc = "process" /\ attempt' = attempt + 1]_vars

\* A valid record was given up after three calls, each failing on the closed
\* channel.
C18_Witness ==
    /\ c_pc = "count_invalid"
    /\ ~BadPayload(c_payload)
    /\ attempt = 3
    /\ backoff_ms = 400

RECURSIVE SumLen(_)
SumLen(fs) == IF fs = <<>> THEN 0 ELSE Head(fs).len + SumLen(Tail(fs))

\* Exactly max_batch publishes were received, all valid, and the writer has
\* handed every one of them to a flush.
BurstHanded ==
    /\ max_batch >= 1
    /\ metrics.messages_total = max_batch
    /\ Len(enq) = max_batch
    /\ Len(handed) = max_batch

\* C16: when exactly max_batch valid messages are published into an idle
\* pipeline, the writer performs exactly one flush, of max_batch records; no
\* interleaving of timer ticks with receives splits them into more flushes.
C16_OneFlushPerBurst ==
    BurstHanded => (Len(flushes) = 1 /\ flushes[1].len = max_batch)

\* C16 as the code has it: the max_batch records are handed over in order in
\* one or more flushes, none longer than max_batch, whose lengths add up to
\* max_batch; it is one size-triggered flush of max_batch records exactly
\* when no timer tick found the buffer partly filled.
C16_BurstFlushedInOrder ==
    BurstHanded =>
        /\ handed = enq
        /\ Len(flushes) \in 1..max_batch
        /\ \A k \in 1..Len(flushes) : flushes[k].len \in 1..max_batch
        /\ SumLen(flushes) = max_batch
        /\ metrics.batch_size <= max_batch
        /\ (\A k \in 1..Len(flushes) : flushes[k].trigger # "timer")
              <=> flushes = <<[trigger |-> "size", len |-> max_batch]>>

\* Two publishes, max_batch = 2, no tick in between: one size-triggered flush
\* of two records, committed.
C16_Witness ==
    /\ BurstHanded
    /\ max_batch = 2
    /\ flushes = <<[trigger |-> "size", len |-> 2]>>
    /\ inserted = enq

\* C17: neither wait of the writer starves the other.  A record in the
\* writer's buffer is eventually handed to a flush, whether or not further
\* messages arrive, and a record pending in the channel is eventually
\* received however the timer ticks.
C17_NoStarvation ==
    /\ \A i \in 1..MaxMsgs :
          (i \in Ids(buffer) /\ ~InFlush) ~> (i \in Ids(handed))
    /\ \A i \in 1..MaxMsgs :
          (i \in Ids(chan)) ~> (i \in Ids(buffer) \cup Ids(handed))

\* A lone record, short of max_batch, was flushed by the timer and committed.
C17_Witness ==
    /\ max_batch = 2
    /\ flushes # <<>>
    /\ flushes[1] = [trigger |-> "timer", len |-> 1]
    /\ Len(inserted) = 1
    /\ chan = <<>> /\ buffer = <<>>

\* ---------------------------------------------------------------------------
\* C23: is_transient_error returns true exactly for pool-timeout, I/O-level
\* and pool-closed errors and for database-level errors whose SQLSTATE is one
\* of 08000, 08003, 08006, 57P03, 53300; false for every other error, a
\* database error with another code or with no code included.
C23_TransientSet ==
    Returned("is_transient_error") =>
        (result.value <=>
            \/ call.arg.kind = "PoolTimedOut"
            \/ call.arg.kind = "Io"
            \/ call.arg.kind = "PoolClosed"
            \/ /\ call.arg.kind = "Database"
               /\ \/ call.arg.code = "08000" \/ call.arg.code = "08003"
                  \/ call.arg.code = "08006" \/ call.arg.code = "57P03"
                  \/ call.arg.code = "53300")

\* A database error without a code was classified, as permanent.
C23_Witness ==
    /\ Returned("is_transient_error")
    /\ call.arg = DbErr("Database", "none")
    /\ result.value = FALSE

\* ---------------------------------------------------------------------------
\* flush_batch called once on a buffer, with a database that may answer each
\* execution of the bulk insert with success or with any error.  Each await
\* returns: an execution answers and a sleep ends, hence the weak fairness.

\* The buffers of up to MaxBatchCfg valid records.
RECURSIVE BuffersOfLen(_)
BuffersOfLen(n) ==
    IF n = 0 THEN {<<>>}
    ELSE {Append(b, Msg(n, t)) : b \in BuffersOfLen(n - 1), t \in ValidRecs}

BufferSamples == UNION {BuffersOfLen(n) : n \in 0..MaxBatchCfg}

InitFlush ==
    /\ max_batch = MaxBatchCfg
    /\ channel_capacity = 1
    /\ main_pc = "running"
    /\ c_pc = "external"
    /\ c_payload = NoPayload
    /\ c_id = 0
    /\ attempt = 0
    /\ backoff_ms = INITIAL_BACKOFF_MS
    /\ chan = <<>>
    /\ tx_alive = TRUE
    /\ rx_alive = TRUE
    /\ w_pc = "call"
    /\ w_trigger = "none"
    /\ buffer \in BufferSamples
    /\ w_attempt = 0
    /\ db_attempts = 0
    /\ table = {}
    /\ metrics = metrics0
    /\ enq = buffer
    /\ handed = <<>>
    /\ inserted = <<>>
    /\ dropped = <<>>
    /\ db_errs = 0
    /\ flushes = <<>>
    /\ flush_log = <<>>
    /\ call = NoCall
    /\ result = NoResult

\* flush_batch(&pool, &mut buffer) is called.
CallFlush ==
    /\ w_pc = "call"
    /\ FlushBatch("direct", buffer)
    /\ UNCHANGED <<fnVars, cfgVars, main_pc, consumerVars, chan, tx_alive, buffer,
                   table, enq, inserted, dropped, db_errs>>

FlushSteps == CallFlush \/ InsertOk \/ InsertErrAny \/ DbSleepWake \/ RetrySleepWake

SpecFlush == InitFlush /\ [][FlushSteps]_vars /\ WF_vars(FlushSteps)

\* The executions of the bulk insert in the flush, in order.
IsExec(e) == e.ev = "exec"
Execs == SelectSeq(flush_log, IsExec)

\* The sleeps flush_batch itself made in the flush, in order, in ms.
IsFlushSleep(e) == e.ev = "sleep" /\ e.out = "flush_batch"
FlushSleeps ==
    LET s == SelectSeq(flush_log, IsFlushSleep)
    IN [k \in 1..Len(s) |-> s[k].ms]

\* C21: one call of insert_batch executes the bulk insert at most 5 times; it
\* re-executes only after a transient error and only while fewer than 5
\* executions were made; on the first permanent error, and after the 5th
\* transient failure, it returns the error to its caller.
C21_AdapterRetryBounded ==
    /\ \A i \in 1..Len(Execs) : Execs[i].n \in 1..5
    /\ \A i \in 1..Len(Execs) - 1 :
          IF Execs[i + 1].call = Execs[i].call
          THEN /\ Execs[i + 1].n = Execs[i].n + 1
               /\ Execs[i].out = "transient"
               /\ Execs[i].n < 5
          ELSE /\ Execs[i + 1].n = 1
               /\ Execs[i + 1].call = Execs[i].call + 1
               /\ Execs[i].out = "permanent" \/ Execs[i].n = 5
    /\ \A i \in 1..Len(flush_log) :
          (IsExec(flush_log[i]) /\ flush_log[i].out # "ok") =>
             IF flush_log[i].out = "transient" /\ flush_log[i].n < 5
             THEN /\ i < Len(flush_log)
                  /\ flush_log[i + 1].ev = "sleep"
                  /\ flush_log[i + 1].out = "insert_batch"
             ELSE \/ i = Len(flush_log) /\ ~InFlush /\ dropped # <<>>
                  \/ /\ i < Len(flush_log)
                     /\ flush_log[i + 1].ev = "sleep"
                     /\ flush_log[i + 1].out = "flush_batch"

\* A call made five executions, each failing with a transient error, and
\* returned the error: flush_batch is in its backoff sleep.
C21_Witness ==
    /\ w_pc = "retry_sleep" /\ w_attempt = 1
    /\ Len(Execs) = 5
    /\ \A i \in 1..5 : Execs[i].out = "transient" /\ Execs[i].n = i

\* The executions of the flush that failed with a transient error.
IsTransientFailure(e) == e.ev = "exec" /\ e.out = "transient"
TransientFailures == Len(SelectSeq(flush_log, IsTransientFailure))

\* C22: db_failures_total is incremented on each failed insert attempt inside
\* the storage adapter: after the insert_batch calls of a flush in which the
\* bulk insert failed k times with a transient error the counter has
\* increased by exactly k, a call whose 5 attempts all fail included.
C22_EachTransientFailureCounted ==
    metrics.db_failures_total = TransientFailures

InitBackpressure ==
    /\ max_batch = 1
    /\ channel_capacity = 1
    /\ main_pc = "running"
    /\ c_pc = "full_sleep"
    /\ c_payload = Json(RecA)
    /\ c_id = 3
    /\ attempt = 1
    /\ backoff_ms = INITIAL_BACKOFF_MS
    /\ chan = <<Msg(2, RecB)>>
    /\ tx_alive = TRUE
    /\ rx_alive = TRUE
    /\ w_pc = "insert"
    /\ w_trigger = "size"
    /\ buffer = <<Msg(1, RecA)>>
    /\ w_attempt = 1
    /\ db_attempts = 1
    /\ table = {}
    /\ metrics = [metrics0 EXCEPT !.messages_total = 3, !.valid_messages_total = 2,
                                  !.channel_full_total = 1, !.batch_size = 1]
    /\ enq = <<Msg(1, RecA), Msg(2, RecB)>>
    /\ handed = <<Msg(1, RecA)>>
    /\ inserted = <<>>
    /\ dropped = <<>>
    /\ db_errs = 0
    /\ flushes = <<[trigger |-> "size", len |-> 1]>>
    /\ flush_log = <<>>
    /\ call = NoCall
    /\ result = NoResult

BlockedConsumerSteps == FullSleepWake \/ BlockingSend \/ CountValid

WriterAnySteps ==
    \/ RecvSome \/ Tick \/ InsertOk \/ InsertErrAny \/ DbSleepWake
    \/ RetrySleepWake

NextBackpressure == BlockedConsumerSteps \/ WriterAnySteps

SpecBackpressure ==
    /\ InitBackpressure /\ [][NextBackpressure]_vars
    /\ WF_vars(BlockedConsumerSteps) /\ WF_vars(WriterAnySteps)

\* The consumer is suspended on a full channel with a record in hand.
Suspended == c_pc \in {"full_sleep", "send"}

\* C27: every flush terminates.  Whatever the storage answers (success,
\* transient error, permanent error), flush_batch returns after at most
\* 3 x 5 = 15 executions of the bulk insert and the writer is again at its
\* select, ready to receive; so a consumer suspended in a blocking send is
\* eventually released while the writer runs.
C27_FlushTerminates ==
    /\ [](Len(Execs) <= 15)
    /\ [](\A i \in 1..Len(Execs) : Execs[i].call \in 1..3 /\ Execs[i].n \in 1..5)
    /\ InFlush ~> (w_pc = "select")
    /\ Suspended ~> (~Suspended /\ c_id \in Ids(enq))

\* The flush under way when the consumer was suspended failed in all of its
\* 15 executions and returned; the consumer is still suspended.
C27_Witness ==
    /\ Suspended
    /\ w_pc = "select"
    /\ Len(Execs) = 15
    /\ dropped = <<Msg(1, RecA)>>

\* ---------------------------------------------------------------------------
\* The record of the publish being processed.
InHand == Msg(c_id, from_slice(c_payload))

\* C24: the enqueue of a validated record is two-phase.  process_message
\* first makes a try_send; only when the channel is full does it increment
\* channel_full_total, once, and then make a blocking send of the same record,
\* which completes once the writer has freed a slot; when try_send succeeds
\* channel_full_total is unchanged and there is no blocking send.
C24_TwoPhaseEnqueue ==
    /\ [][(c_pc = "process" /\ ~BadPayload(c_payload) /\ rx_alive /\ c_pc' # c_pc)
            => IF Len(chan) < channel_capacity
               THEN /\ chan' = Append(chan, InHand)
                    /\ c_pc' = "count_valid"
                    /\ metrics'.channel_full_total = metrics.channel_full_total
               ELSE /\ chan' = chan
                    /\ c_pc' = "full_sleep"
                    /\ metrics'.channel_full_total = metrics.channel_full_total + 1
                    /\ UNCHANGED <<c_payload, c_id>>]_vars
    /\ [][(metrics'.channel_full_total # metrics.channel_full_total)
            => (c_pc = "process" /\ Len(chan) >= channel_capacity)]_vars
    /\ [][(c_pc' = "send" /\ c_pc # "send") => c_pc = "full_sleep"]_vars
    /\ [][(c_pc = "full_sleep" /\ c_pc' # c_pc)
            => (c_pc' = "send" /\ UNCHANGED <<c_payload, c_id, chan, metrics>>)]_vars
    /\ [][(c_pc = "send" /\ c_pc' # c_pc /\ rx_alive)
            => /\ Len(chan) < channel_capacity
               /\ chan' = Append(chan, InHand)
               /\ c_pc' = "count_valid"
               /\ metrics' = metrics]_vars
    /\ (c_pc = "send" /\ Len(chan) < channel_capacity) ~> (c_pc = "count_valid")

\* The second publish met a full channel, was counted in channel_full_total
\* and its blocking send has completed.
C24_Witness ==
    /\ c_pc = "count_valid"
    /\ c_id = 2
    /\ metrics.channel_full_total = 1
    /\ enq[Len(enq)] = InHand

\* C25: when the handoff channel is closed, an enqueue fails with ChannelSend
\* and the consumer treats the closed channel as terminal: it does not
\* re-attempt the enqueue of that message on the closed channel.
C25_ClosedIsTerminal ==
    /\ [][(c_pc \in {"process", "send"} /\ ~BadPayload(c_payload) /\ ~rx_alive
             /\ c_pc' # c_pc)
            => (c_pc' = "count_invalid" /\ UNCHANGED <<chan, enq>>)]_vars
    /\ [][(c_pc = "process" /\ ~rx_alive /\ attempt' # attempt) => attempt = 0]_vars

\* C28: whenever no enqueue is in the middle of completing,
\* valid_messages_total equals the number of records ever enqueued: it is
\* incremented once per successful try_send or blocking send, never for a
\* failed send, and never twice for one publish even when it is retried.
C28_ValidCountsEnqueued ==
    /\ [](c_pc # "count_valid" => metrics.valid_messages_total = Len(enq))
    /\ [](c_pc = "count_valid" =>
            (metrics.valid_messages_total + 1 = Len(enq) /\ enq[Len(enq)] = InHand))
    /\ [][(metrics'.valid_messages_total # metrics.valid_messages_total)
            => /\ metrics'.valid_messages_total = metrics.valid_messages_total + 1
               /\ c_pc = "count_valid"]_vars
    /\ [][(c_pc \in {"process", "send"} /\ c_pc' \in {"backoff", "count_invalid"})
            => UNCHANGED <<enq, metrics>>]_vars

\* Two records were enqueued, one of them by a blocking send after Full, and
\* both are counted.
C28_Witness ==
    /\ c_pc = "poll"
    /\ Len(enq) = 2
    /\ metrics.valid_messages_total = 2
    /\ metrics.channel_full_total = 1

\* C29: the consumer's retry never duplicates a record.  Whatever the enqueue
\* attempts of a publish meet (Ok, Full, Closed), its record is enqueued at
\* most once: a failed attempt leaves no copy in the channel and a successful
\* one ends the retry loop.
C29_NoDuplicateEnqueue ==
    /\ [](\A i, j \in 1..Len(enq) : enq[i].id = enq[j].id => i = j)
    /\ [][(c_pc \in {"process", "send"} /\ c_pc' \in {"backoff", "count_invalid"})
            => UNCHANGED <<chan, enq>>]_vars
    /\ [][(enq' # enq)
            => /\ enq' = Append(enq, InHand)
               /\ c_id \notin Ids(enq)
               /\ c_pc' = "count_valid"]_vars
    /\ [][(c_pc = "count_valid" /\ c_pc' # c_pc) => c_pc' = "poll"]_vars

\* A publish met Full, its blocking send failed on the closed channel, and
\* the retries that followed failed too: its record was never enqueued.
C29_Witness ==
    /\ c_pc = "count_invalid"
    /\ ~BadPayload(c_payload)
    /\ attempt = 3
    /\ metrics.channel_full_total = 1
    /\ c_id \notin Ids(enq)
    /\ Len(enq) = 1

\* ---------------------------------------------------------------------------
\* C30: records are conserved between consumer and storage.  Each enqueued
\* record is in exactly one of: the channel, the writer's buffer, a batch
\* whose insert_batch returned success, a batch the writer dropped after its
\* 3rd failed attempt; so enqueued = in channel + buffered + inserted +
\* dropped, and no record is handed to a successful insert in two flushes.
C30_RecordsConserved ==
    /\ Len(enq) = Len(chan) + Len(buffer) + Len(inserted) + Len(dropped)
    /\ Ids(enq) = Ids(chan) \cup Ids(buffer) \cup Ids(inserted) \cup Ids(dropped)
    /\ \A i \in 1..Len(enq) :
          LET m == enq[i]
              In(s) == \E k \in 1..Len(s) : s[k] = m
          IN Cardinality({p \in {"chan", "buffer", "inserted", "dropped"} :
                CASE p = "chan" -> In(chan)
                  [] p = "buffer" -> In(buffer)
                  [] p = "inserted" -> In(inserted)
                  [] p = "dropped" -> In(dropped)}) = 1
    /\ \A i, j \in 1..Len(inserted) : inserted[i].id = inserted[j].id => i = j

\* One record was dropped after three failed attempts, the next was inserted.
C30_Witness ==
    /\ Len(dropped) = 1
    /\ Len(inserted) = 1
    /\ chan = <<>> /\ buffer = <<>>
    /\ Len(enq) = 2

\* ---------------------------------------------------------------------------
\* The batch the flush under way took at its start: the records it added to
\* handed, as many as its entry in flushes says.
FlushBatchTaken ==
    LET n == flushes[Len(flushes)].len
    IN SubSeq(handed, Len(handed) - n + 1, Len(handed))

\* C31: during one flush the batch is fixed.  A failed insert attempt and a
\* backoff sleep leave the buffer unchanged, no record is received from the
\* channel into the buffer between the start and the end of the flush, every
\* attempt passes insert_batch the same n records in the same order as the
\* first, and the buffer changes only by the clear on success or on the 3rd
\* failure.
C31_BatchFixedDuringFlush ==
    /\ [](InFlush => (buffer # <<>> /\ buffer = FlushBatchTaken))
    /\ [][(InFlush /\ InFlush') => buffer' = buffer]_vars
    /\ [][InFlush =>
            \/ chan' = chan
            \/ /\ Len(enq') = Len(enq) + 1
               /\ chan' = Append(chan, enq'[Len(enq')])]_vars
    /\ [][(InFlush /\ buffer' # buffer)
            => /\ buffer' = <<>>
               /\ ~InFlush'
               /\ \/ inserted' = inserted \o buffer
                  \/ w_attempt = 3 /\ dropped' = dropped \o buffer]_vars
    /\ [][(db_errs' # db_errs /\ InFlush') => buffer' = buffer]_vars

\* The third attempt of a flush is about to pass insert_batch the same two
\* records as the first, after two failed attempts and two backoff sleeps.
C31_Witness ==
    /\ w_pc = "insert"
    /\ w_attempt = 3
    /\ db_errs = 2
    /\ Len(buffer) = 2
    /\ buffer = FlushBatchTaken

============================================================================
